---- MODULE Spec2Model ----
(***************************************************************************)
(* A model of the backpack logging library: the process-wide configuration *)
(* flags, the Printer (dispatcher) with its task and step stacks, the      *)
(* FormatLogger default methods, the render backends, the structured       *)
(* LogEvent builder, the global logger facade, the Progress handle, and    *)
(* several threads stepping through the operations of one shared Printer.  *)
(*                                                                         *)
(* Strings the program builds are modelled as sequences of tokens: the     *)
(* formatter's "<glyph> <m>" is <<glyph, m>>, and a suffix appended by     *)
(* format! is a concatenation of token sequences.                          *)
(***************************************************************************)
EXTENDS Integers, Sequences, FiniteSets, TLC

\* ------------------------------------------------------------------ bounds
MaxPrinters == 2   \* Printers constructed in one process
MaxTasks    == 2   \* open tasks per Printer
MaxSteps    == 2   \* open steps per Printer
MaxTicks    == 2   \* clock advances in one run
MaxCurrent  == 2   \* largest progress counter and total
MaxBarCalls == 3   \* render_progress calls on a ModernBackend in one run
MaxThreads  == 2   \* threads sharing one Printer
MaxCalls    == 3   \* Printer operations the threads start in one run

\* ------------------------------------------------------------- value sets
Verbosities == {"Quiet", "Normal", "Verbose", "Trace"}
Formats     == {"Text", "Json"}
Backends    == {"Simple", "Modern"}
Levels      == {"Info", "Warn", "Error", "Debug", "Trace"}
Labels      == {"a", "b"}    \* task labels, step names, outro messages
Msgs        == {"m"}         \* messages of the leveled operations

\* Option<T>: None is the empty sequence, Some(x) a one-element sequence.
None    == << >>
Some(x) == << x >>

\* One clock advance, in microseconds (half a millisecond).
TickStep == 500

VARIABLES
    QUIET,      \* config::QUIET
    VERBOSE,    \* config::VERBOSE
    LOGGER,     \* globals::LOGGER: 0 is None, otherwise the index of a Printer
    printers,   \* the Printers constructed so far, in construction order
    now,        \* the monotonic clock (Instant::now), in microseconds
    ticks,      \* number of clock advances so far
    out,        \* what the most recent operation wrote, in order
    call,       \* the most recent operation and its arguments
    ret,        \* what the most recent FormatLogger call returned
    opened,     \* per Printer: intro calls not yet answered by an outro or done
    installed,  \* the Printers given to set_logger, in call order
    ev,         \* the LogEvent builder in flight
    panicked,   \* the message of the panic that ended the process, "" if none
    prog,       \* the Progress handle in flight
    trail,      \* the calls the most recent operation made on the global logger
    barlog,     \* one entry per render_progress call on a ModernBackend
    thread,     \* per thread: where it is inside the Printer operation it runs
    held,       \* per stack lock of the shared Printer: the thread holding it, 0 if free
    tally       \* calls started, intros completed, and tasks found by outro/done

vars == << QUIET, VERBOSE, LOGGER, printers, now, ticks, out, call, ret, opened,
          installed, ev, panicked, prog, trail, barlog, thread, held, tally >>

\* ---------------------------------------------------------- config flags
isquiet   == QUIET
isverbose == VERBOSE

\* ------------------------------------------------------------ text
\* Text is a sequence of tokens; Contains(t, m) is "t contains the substring m".
Contains(t, m) ==
    \E i \in 0..(Len(t) - Len(m)) : SubSeq(t, i + 1, i + Len(m)) = m

Front(s) == SubSeq(s, 1, Len(s) - 1)
Last(s)  == s[Len(s)]

\* ------------------------------------------------------- FormatLogger
is_quiet   == isquiet
is_verbose == isverbose

ok_raw(m)    == << "ok-glyph" >> \o m
warn_raw(m)  == << "warn-glyph" >> \o m
err_raw(m)   == << "err-glyph" >> \o m
info_raw(m)  == << "info-glyph" >> \o m
dim_raw(m)   == << "dim-glyph" >> \o m
intro_raw(m) == << "intro-glyph" >> \o m
outro_raw(m) == << "outro-glyph" >> \o m
done_raw     == << "outro-glyph", "Done!" >>
step_raw(m)  == << "step-glyph" >> \o m
debug_raw(m) == << "debug-glyph" >> \o m
trace_raw(m) == << "trace-glyph" >> \o m

FormatLogger_ok(m)    == IF is_quiet THEN None ELSE Some(ok_raw(m))
FormatLogger_warn(m)  == IF is_quiet THEN None ELSE Some(warn_raw(m))
FormatLogger_err_Quiet(m) == IF is_quiet THEN << >> ELSE err_raw(m)
FormatLogger_err(m)   == err_raw(m)
FormatLogger_info(m)  == IF is_quiet THEN None ELSE Some(info_raw(m))
FormatLogger_dim(m)   == IF is_quiet THEN None ELSE Some(dim_raw(m))
FormatLogger_intro(m) == IF is_quiet THEN None ELSE Some(intro_raw(m))
FormatLogger_outro_Quiet(m) == IF is_quiet THEN None ELSE Some(outro_raw(m))
FormatLogger_outro(m) == Some(outro_raw(m))
FormatLogger_done     == Some(done_raw)
FormatLogger_step(m)  == IF is_quiet THEN None ELSE Some(step_raw(m))
FormatLogger_debug(m) == IF is_verbose THEN Some(debug_raw(m)) ELSE None
FormatLogger_trace(m) == IF is_verbose THEN Some(trace_raw(m)) ELSE None

\* ------------------------------------------------------------ output
\* One line written by an operation.  via is the writer: a RenderBackend
\* method, "json" (emit_json_fields), "tracing" (an event of the tracing
\* subscriber, whose writer is stderr) or "println".  stream is where the
\* line went: "stdout", "stderr", or "failed" for a render call that
\* returned Err and wrote nothing.
Line(stream, via, level, text, fields, ts) ==
    [stream |-> stream, via |-> via, level |-> level, text |-> text,
     fields |-> fields, ts |-> ts]

\* The subscriber installed by init() filters at LevelFilter::TRACE and
\* writes to stderr: every tracing event is written.
Tracing(level, text) == << Line("stderr", "tracing", level, text, None, FALSE) >>

\* ------------------------------------------------------ RenderBackend
SimpleStream_OnlyError(method) ==
    IF method = "render_error" THEN "stderr" ELSE "stdout"
SimpleStream(method) ==
    IF method \in {"render_error", "render_debug", "render_trace"}
    THEN "stderr" ELSE "stdout"

\* SimpleBackend always returns Ok(()); a ModernBackend call returns the
\* io::Result of cliclack, which writes to the terminal's error stream.
RenderOutcomes(backend) == IF backend = "Simple" THEN {TRUE} ELSE BOOLEAN

Render(backend, method, text, ok) ==
    IF backend = "Simple"
    THEN << Line(SimpleStream(method), method, "", text, None, FALSE) >>
    ELSE << Line(IF ok THEN "stderr" ELSE "failed", method, "", text, None, FALSE) >>

\* ------------------------------------------------------------ LogLevel
\* LogLevel::Progress is used by Printer::progress and emit_text_fields, but
\* the enum and as_str in fields/levels.rs have no such variant; its JSON
\* name is taken to be the variant's name in lower case, like the others.
ProgressLevelName == "progress"

as_str(level) ==
    CASE level = "Info"  -> "info"
      [] level = "Warn"  -> "warn"
      [] level = "Error" -> "error"
      [] level = "Debug" -> "debug"
      [] level = "Trace" -> "trace"
      [] level = "Progress" -> ProgressLevelName

\* ------------------------------------------------------------ durations
as_millis(d) == d \div 1000
as_secs(d)   == d \div 1000000

\* format!("{:.1}s") of the seconds, else whole milliseconds.  {:.1} rounds
\* to the nearest tenth; at an exact tie the f64 nearest to the seconds
\* decides, and no time the clock of this model reaches is a tie.
format_duration(d) ==
    IF as_secs(d) > 0
    THEN LET t == (d + 50000) \div 100000
         IN  << ToString(t \div 10), ".", ToString(t % 10), "s" >>
    ELSE << ToString(as_millis(d)), "ms" >>

\* ---------------------------------------------------------- JSON output
\* fields is an Option<&Fields>; Fields is a sequence of <<key, value>>
\* pairs in key order (BTreeMap).
emit_json_fields_AlwaysFields(pr, level, message, fields) ==
    << Line(IF level = "Error" THEN "stderr" ELSE "stdout",
            "json", as_str(level), message, fields, pr.timestamp = "Real") >>
emit_json_fields(pr, level, message, fields) ==
    << Line(IF level = "Error" THEN "stderr" ELSE "stdout",
            "json", as_str(level), message,
            IF fields # None /\ fields[1] # << >> THEN fields ELSE None,
            pr.timestamp = "Real") >>

emit_json_AllStdout(pr, level, message) ==
    << Line("stdout", "json", as_str(level), message, None, pr.timestamp = "Real") >>
emit_json(pr, level, message) == emit_json_fields(pr, level, message, None)

\* -------------------------------------------------------------- Printer
\* The most recent operation: op is the method ("facade" for a facade
\* function, "format" for a FormatLogger method called alone), p the Printer
\* it was called on (0 when none), m its message, level its LogLevel (the
\* method's name for "format", "" when none), and
\* tasks/steps the sizes of the stacks outro or done found (0 otherwise).
CallOn(op, p, m, level, tasks, steps) ==
    [op |-> op, p |-> p, m |-> m, level |-> level, tasks |-> tasks, steps |-> steps]
Call(op, p, m, level) == CallOn(op, p, m, level, 0, 0)

\* The handle of a new span: spans are numbered in order of creation among
\* the ones still open.
NewSpan(tasks) ==
    IF tasks = << >> THEN 1
    ELSE 1 + (CHOOSE n \in { tasks[i].span : i \in 1..Len(tasks) } :
                 \A i \in 1..Len(tasks) : tasks[i].span <= n)

TimedSpan(span, start, label) == [span |-> span, start |-> start, label |-> label]

\* Vec::push, Vec::pop (the removed item, the remaining vector), Vec::clear
Vec_push(v, x)   == Append(v, x)
Vec_pop_OrDefault(v) ==
    IF v = << >> THEN Some(TimedSpan(0, 0, << >>)) ELSE Some(Last(v))
Vec_pop(v)       == IF v = << >> THEN None ELSE Some(Last(v))
Vec_popped(v)    == IF v = << >> THEN v ELSE Front(v)
Vec_clear(v)     == << >>

\* An outro or done answers the innermost unanswered intro, if there is one.
Closed(n) == IF n > 0 THEN n - 1 ELSE 0

\* Printer::new: mirror the verbosity into the process-wide flags, build the
\* Printer with empty stacks.
FlagQuiet(verbosity)   == verbosity = "Quiet"
FlagVerbose(verbosity) == verbosity \in {"Verbose", "Trace"}

Printer_new(backend, format, verbosity) ==
    /\ panicked = ""
    /\ Len(printers) < MaxPrinters
    /\ QUIET' = FlagQuiet(verbosity)
    /\ VERBOSE' = FlagVerbose(verbosity)
    /\ printers' = Append(printers,
            [backend |-> backend, format |-> format, verbosity |-> verbosity,
             timestamp |-> "Real", tasks |-> << >>, steps |-> << >>,
             bar |-> None])
    /\ out' = << >>
    /\ call' = Call("new", Len(printers) + 1, << >>, "")
    /\ opened' = Append(opened, 0)
    /\ UNCHANGED << thread, held, tally, prog, trail, barlog, LOGGER, now, ticks, ret, installed, ev, panicked >>

\* Instant::now() moves on between two calls.
Tick ==
    /\ panicked = ""
    /\ ticks < MaxTicks
    /\ now' = now + TickStep
    /\ ticks' = ticks + 1
    /\ out' = << >>
    /\ call' = Call("tick", 0, << >>, "")
    /\ UNCHANGED << thread, held, tally, prog, trail, barlog, QUIET, VERBOSE, LOGGER, printers, ret, opened, installed, ev, panicked >>

\* The time that passes between two calls of the caller, in microseconds:
\* one clock advance (half a millisecond), just under and exactly one second,
\* and nearly two seconds.
Naps == {TickStep, 999000, 1000000, 1940000}

Sleep(d) ==
    /\ panicked = ""
    /\ ticks < MaxTicks
    /\ now' = now + d
    /\ ticks' = ticks + 1
    /\ out' = << >>
    /\ call' = Call("sleep", 0, << >>, "")
    /\ UNCHANGED << thread, held, tally, prog, trail, barlog, QUIET, VERBOSE, LOGGER, printers, ret, opened, installed, ev, panicked >>

\* What intro writes.
IntroWritten(pr, m, ok) ==
    LET s == FormatLogger_intro(m) IN
    IF s = None THEN << >>
    ELSE IF pr.format = "Json" THEN emit_json(pr, "Info", s[1])
    ELSE Render(pr.backend, "render_intro", s[1], ok)
         \o (IF is_verbose THEN Tracing("INFO", s[1]) ELSE << >>)

\* The task stack after intro.
IntroTasks_SkipsSuppressed(pr, m) ==
    IF FormatLogger_intro(m) = None THEN pr.tasks
    ELSE Vec_push(pr.tasks, TimedSpan(NewSpan(pr.tasks), now, m))
IntroTasks(pr, m) ==
    Vec_push(pr.tasks, TimedSpan(NewSpan(pr.tasks), now, m))

Printer_intro_Propagates(p, m, ok) ==
    /\ panicked = ""
    /\ Len(printers[p].tasks) < MaxTasks
    /\ out' = IntroWritten(printers[p], m, ok)
    /\ printers' = IF \E i \in DOMAIN IntroWritten(printers[p], m, ok) :
                        IntroWritten(printers[p], m, ok)[i].stream = "failed"
                   THEN printers
                   ELSE [printers EXCEPT ![p].tasks = IntroTasks(printers[p], m)]
    /\ call' = Call("intro", p, m, "")
    /\ opened' = [opened EXCEPT ![p] = @ + 1]
    /\ UNCHANGED << thread, held, tally, prog, trail, barlog, QUIET, VERBOSE, LOGGER, now, ticks, ret, installed, ev, panicked >>
Printer_intro(p, m, ok) ==
    /\ panicked = ""
    /\ Len(printers[p].tasks) < MaxTasks
    /\ out' = IntroWritten(printers[p], m, ok)
    /\ printers' = [printers EXCEPT ![p].tasks = IntroTasks(printers[p], m)]
    /\ call' = Call("intro", p, m, "")
    /\ opened' = [opened EXCEPT ![p] = @ + 1]
    /\ UNCHANGED << thread, held, tally, prog, trail, barlog, QUIET, VERBOSE, LOGGER, now, ticks, ret, installed, ev, panicked >>

\* The line outro/done renders in Text format for the popped task.
OutroMsg_AlwaysTimed(s, task) ==
    IF task # None
    THEN s \o << "(took" >> \o format_duration(now - task[1].start) \o << ")" >>
    ELSE s
OutroMsg(s, task) ==
    IF task # None
    THEN LET elapsed == now - task[1].start
             timing  == format_duration(elapsed)
         IN  IF as_millis(elapsed) > 0
             THEN s \o << "(took" >> \o timing \o << ")" >>
             ELSE s
    ELSE s

\* outro and done share their body; s is the formatter's decision.
CloseWritten_Untimed(pr, s, ok) ==
    IF s = None THEN << >>
    ELSE IF pr.format = "Json" THEN emit_json(pr, "Info", s[1])
    ELSE Render(pr.backend, "render_outro", s[1], ok)
         \o (IF is_verbose THEN Tracing("INFO", s[1]) ELSE << >>)
CloseWritten(pr, s, ok) ==
    IF s = None THEN << >>
    ELSE IF pr.format = "Json" THEN emit_json(pr, "Info", s[1])
    ELSE LET msg == OutroMsg(s[1], Vec_pop(pr.tasks)) IN
         Render(pr.backend, "render_outro", msg, ok)
         \o (IF is_verbose THEN Tracing("INFO", msg) ELSE << >>)

CloseTasks(pr, s) ==
    IF s # None /\ pr.format = "Text" THEN Vec_popped(pr.tasks) ELSE pr.tasks

CloseSteps_PopOne(pr, s) ==
    IF s # None /\ pr.format = "Text" THEN Vec_popped(pr.steps) ELSE pr.steps
CloseSteps(pr, s) ==
    IF s # None /\ pr.format = "Text" THEN Vec_clear(pr.steps) ELSE pr.steps

Printer_outro(p, m, ok) ==
    /\ panicked = ""
    /\ out' = CloseWritten(printers[p], FormatLogger_outro(m), ok)
    /\ printers' = [printers EXCEPT
            ![p].tasks = CloseTasks(printers[p], FormatLogger_outro(m)),
            ![p].steps = CloseSteps(printers[p], FormatLogger_outro(m))]
    /\ call' = CallOn("outro", p, m, "", Len(printers[p].tasks), Len(printers[p].steps))
    /\ opened' = [opened EXCEPT ![p] = Closed(@)]
    /\ UNCHANGED << thread, held, tally, prog, trail, barlog, QUIET, VERBOSE, LOGGER, now, ticks, ret, installed, ev, panicked >>

Printer_done(p, ok) ==
    /\ panicked = ""
    /\ out' = CloseWritten(printers[p], FormatLogger_done, ok)
    /\ printers' = [printers EXCEPT
            ![p].tasks = CloseTasks(printers[p], FormatLogger_done),
            ![p].steps = CloseSteps(printers[p], FormatLogger_done)]
    /\ call' = CallOn("done", p, << >>, "", Len(printers[p].tasks), Len(printers[p].steps))
    /\ opened' = [opened EXCEPT ![p] = Closed(@)]
    /\ UNCHANGED << thread, held, tally, prog, trail, barlog, QUIET, VERBOSE, LOGGER, now, ticks, ret, installed, ev, panicked >>

StepWritten(pr, m, ok) ==
    LET s == FormatLogger_step(m) IN
    IF s = None THEN << >>
    ELSE IF pr.format = "Json" THEN emit_json(pr, "Info", s[1])
    ELSE Render(pr.backend, "render_step", s[1], ok)
         \o (IF is_verbose THEN Tracing("INFO", s[1]) ELSE << >>)

StepSteps(pr, m) ==
    IF FormatLogger_step(m) # None /\ pr.format = "Text" /\ is_verbose
    THEN Vec_push(pr.steps, m) ELSE pr.steps

Printer_step(p, m, ok) ==
    /\ panicked = ""
    /\ Len(printers[p].steps) < MaxSteps
    /\ out' = StepWritten(printers[p], m, ok)
    /\ printers' = [printers EXCEPT ![p].steps = StepSteps(printers[p], m)]
    /\ call' = Call("step", p, m, "")
    /\ UNCHANGED << thread, held, tally, prog, trail, barlog, QUIET, VERBOSE, LOGGER, now, ticks, ret, opened, installed, ev, panicked >>

\* ok, warn, info, dim: render the formatter's string unless suppressed.
Leveled(pr, s, level, method, tracing, ok) ==
    IF s = None THEN << >>
    ELSE IF pr.format = "Json" THEN emit_json(pr, level, s[1])
    ELSE Render(pr.backend, method, s[1], ok)
         \o (IF tracing # "" THEN Tracing(tracing, s[1]) ELSE << >>)

OkWritten(pr, m, ok) ==
    Leveled(pr, FormatLogger_ok(m), "Info", "render_success", "", ok)
WarnWritten(pr, m, ok) ==
    Leveled(pr, FormatLogger_warn(m), "Warn", "render_warning", "WARN", ok)
ErrWritten(pr, m, ok) ==
    Leveled(pr, Some(FormatLogger_err(m)), "Error", "render_error", "ERROR", ok)
InfoWritten(pr, m, ok) ==
    Leveled(pr, FormatLogger_info(m), "Info", "render_info", "", ok)
DimWritten(pr, m, ok) ==
    Leveled(pr, FormatLogger_dim(m), "Debug", "render_remark", "", ok)

\* debug, trace: in Text format the string goes to tracing alone.
DebugWritten(pr, m) ==
    LET s == FormatLogger_debug(m) IN
    IF s = None THEN << >>
    ELSE IF pr.format = "Json" THEN emit_json(pr, "Debug", s[1])
    ELSE Tracing("DEBUG", s[1])

TraceWritten(pr, m) ==
    LET s == FormatLogger_trace(m) IN
    IF s = None THEN << >>
    ELSE IF pr.format = "Json" THEN emit_json(pr, "Trace", s[1])
    ELSE Tracing("TRACE", s[1])

\* An operation that only writes.
Writes(op, p, m, level, written) ==
    /\ panicked = ""
    /\ out' = written
    /\ call' = Call(op, p, m, level)
    /\ UNCHANGED << thread, held, tally, prog, trail, barlog, QUIET, VERBOSE, LOGGER, printers, now, ticks, ret, opened, installed, ev, panicked >>

Printer_ok(p, m, ok)   == Writes("ok", p, m, "", OkWritten(printers[p], m, ok))
Printer_warn(p, m, ok) == Writes("warn", p, m, "", WarnWritten(printers[p], m, ok))
Printer_err(p, m, ok)  == Writes("err", p, m, "", ErrWritten(printers[p], m, ok))
Printer_info(p, m, ok) == Writes("info", p, m, "", InfoWritten(printers[p], m, ok))
Printer_dim(p, m, ok)  == Writes("dim", p, m, "", DimWritten(printers[p], m, ok))
Printer_debug(p, m)    == Writes("debug", p, m, "", DebugWritten(printers[p], m))
Printer_trace(p, m)    == Writes("trace", p, m, "", TraceWritten(printers[p], m))


\* ------------------------------------------------------------ progress
Counts == 0..MaxCurrent
Totals == {None} \cup { Some(t) : t \in Counts }

\* "{label} ({current}/{t})", or "{label} ({current})" without a total.
ProgressText(label, current, total) ==
    IF total # None
    THEN label \o << "(", ToString(current), "/", ToString(total[1]), ")" >>
    ELSE label \o << "(", ToString(current), ")" >>

SimpleBackend_render_progress(label, current, total, finished) ==
    << Line(SimpleStream("render_progress"), "render_progress", "",
            ProgressText(label, current, total), None, FALSE) >>
    \o (IF finished
        THEN << Line(SimpleStream("render_progress"), "render_progress", "",
                     label \o << "-- done" >>, None, FALSE) >>
        ELSE << >>)

\* A SimpleBackend method called directly.
RenderMethods ==
    {"render_error", "render_info", "render_remark", "render_step", "render_success",
     "render_warning", "render_intro", "render_outro", "render_debug", "render_trace"}

SimpleBackend_render(method, msg) ==
    /\ panicked = ""
    /\ out' = Render("Simple", method, msg, TRUE)
    /\ call' = Call("SimpleBackend", 0, msg, method)
    /\ UNCHANGED << thread, held, tally, QUIET, VERBOSE, LOGGER, printers, now, ticks, ret, opened, installed,
                    ev, panicked, prog, trail, barlog >>

SimpleBackend_progress(label, current, total, finished) ==
    /\ panicked = ""
    /\ out' = SimpleBackend_render_progress(label, current, total, finished)
    /\ call' = Call("SimpleBackend", 0, label, "render_progress")
    /\ UNCHANGED << thread, held, tally, QUIET, VERBOSE, LOGGER, printers, now, ticks, ret, opened, installed,
                    ev, panicked, prog, trail, barlog >>

\* ModernBackend keeps one Option<ProgressBar>.  BarInUse is the bar the
\* call works on (created and started with this call's label if there was
\* none), BarUpdated that bar after set_length / set_position / set_message.
BarInUse(bar, label, total) ==
    IF bar = None
    THEN [label |-> label, length |-> IF total # None THEN total[1] ELSE 0,
          position |-> 0, message |-> label]
    ELSE bar[1]

BarUpdated(bar, label, current, total) ==
    [BarInUse(bar, label, total) EXCEPT
        !.length = IF total # None THEN total[1] ELSE @,
        !.position = current,
        !.message = label]

\* The bar left behind: dropped by a finished call.
ModernBackend_bar(bar, label, current, total, finished) ==
    IF finished THEN None ELSE Some(BarUpdated(bar, label, current, total))

\* What the terminal shows: the bar's start and stop (cliclack draws on the
\* terminal's error stream).
ModernBackend_render_progress(bar, label, current, total, finished) ==
    (IF bar = None
     THEN << Line("stderr", "bar.start", "", label, None, FALSE) >> ELSE << >>)
    \o (IF finished
        THEN << Line("stderr", "bar.stop", "", label, None, FALSE) >> ELSE << >>)

\* The record of one ModernBackend::render_progress call: its label, whether
\* it started a bar, whether it stopped one, and the label the bar it worked
\* on was started with.
BarCall(bar, label, total, finished) ==
    [label |-> label, finished |-> finished, started |-> bar = None,
     stopped |-> finished, owner |-> BarInUse(bar, label, total).label]

UsesBar(pr) == pr.format = "Text" /\ pr.backend = "Modern"

\* Printer::progress.  In Json format the fields map is built and dropped:
\* only the label goes out, at level Progress.
ProgressWritten(pr, label, current, total, finished) ==
    IF pr.format = "Json" THEN emit_json(pr, "Progress", label)
    ELSE IF pr.backend = "Simple"
         THEN SimpleBackend_render_progress(label, current, total, finished)
         ELSE ModernBackend_render_progress(pr.bar, label, current, total, finished)

ProgressPrinter(pr, label, current, total, finished) ==
    IF UsesBar(pr)
    THEN [pr EXCEPT !.bar = ModernBackend_bar(pr.bar, label, current, total, finished)]
    ELSE pr

ProgressLog(log, pr, label, total, finished) ==
    IF UsesBar(pr) THEN Append(log, BarCall(pr.bar, label, total, finished)) ELSE log

Printer_progress(p, label, current, total, finished) ==
    /\ panicked = ""
    /\ Len(barlog) < MaxBarCalls
    /\ out' = ProgressWritten(printers[p], label, current, total, finished)
    /\ printers' = [printers EXCEPT ![p] = ProgressPrinter(@, label, current, total, finished)]
    /\ barlog' = ProgressLog(barlog, printers[p], label, total, finished)
    /\ call' = Call("progress", p, label, "Progress")
    /\ UNCHANGED << thread, held, tally, QUIET, VERBOSE, LOGGER, now, ticks, ret, opened, installed, ev,
                    panicked, prog, trail >>

\* dump_task_tree: nothing unless verbose, else plain println! lines.
TaskLine(i, t) ==
    << ToString(i), "." >> \o t.label \o << "(started, +" >>
        \o format_duration(now - t.start) \o << ")" >>

dump_task_tree_NewestFirst(pr) ==
    IF ~is_verbose THEN << >>
    ELSE IF pr.tasks = << >>
         THEN << Line("stdout", "println", "", << "(no active tasks)" >>, None, FALSE) >>
         ELSE << Line("stdout", "println", "", << "Active tasks:" >>, None, FALSE) >>
              \o [ i \in 1..Len(pr.tasks) |->
                     Line("stdout", "println", "",
                          TaskLine(i, pr.tasks[Len(pr.tasks) + 1 - i]), None, FALSE) ]
dump_task_tree(pr) ==
    IF ~is_verbose THEN << >>
    ELSE IF pr.tasks = << >>
         THEN << Line("stdout", "println", "", << "(no active tasks)" >>, None, FALSE) >>
         ELSE << Line("stdout", "println", "", << "Active tasks:" >>, None, FALSE) >>
              \o [ i \in 1..Len(pr.tasks) |->
                     Line("stdout", "println", "", TaskLine(i, pr.tasks[i]), None, FALSE) ]

Printer_dump_tree(p) ==
    /\ panicked = ""
    /\ out' = dump_task_tree(printers[p])
    /\ call' = Call("dump_tree", p, << >>, "")
    /\ UNCHANGED << thread, held, tally, QUIET, VERBOSE, LOGGER, printers, now, ticks, ret, opened, installed,
                    ev, panicked, prog, trail, barlog >>

\* ------------------------------------------------- structured events
Keys == {"role", "user_id"}

\* Values given to field(): an integer or a string, stored by to_string().
Vals == { [tag |-> "int", n |-> 42, s |-> ""],
          [tag |-> "str", n |-> 0, s |-> "admin"] }

to_string(v) == IF v.tag = "int" THEN ToString(v.n) ELSE v.s

\* Keys are ordered as strings: "role" < "user_id".
KeyLess(a, b) == a = "role" /\ b = "user_id"

\* BTreeMap::insert on the key-ordered sequence of <<key, value>> pairs.
BTreeMap_insert_Appends(f, k, v) == Append(f, << k, v >>)
RECURSIVE BTreeMap_insert(_, _, _)
BTreeMap_insert(f, k, v) ==
    IF f = << >> THEN << << k, v >> >>
    ELSE IF Head(f)[1] = k THEN << << k, v >> >> \o Tail(f)
    ELSE IF KeyLess(k, Head(f)[1]) THEN << << k, v >> >> \o f
    ELSE << Head(f) >> \o BTreeMap_insert(Tail(f), k, v)

\* One "k=v" pair in dim style: "\x1b[2m{k}={v}\x1b[0m".
DimPair(k, v) == << "ESC[2m", k, "=", v, "ESC[0m" >>

\* The pairs of a field map in the map's iteration order; tokens of a text
\* are separated by single spaces.
RECURSIVE FieldsStr(_)
FieldsStr(f) ==
    IF f = << >> THEN << >>
    ELSE DimPair(Head(f)[1], Head(f)[2]) \o FieldsStr(Tail(f))

FormattedMsg(msg, fields) ==
    IF fields # None /\ fields[1] # << >>
    THEN msg \o FieldsStr(fields[1]) ELSE msg

RenderSome(pr, s, method, ok) ==
    IF s = None THEN << >> ELSE Render(pr.backend, method, s[1], ok)

emit_text_fields(pr, level, msg, fields, ok) ==
    LET formatted_msg == FormattedMsg(msg, fields) IN
    CASE level = "Info"  ->
            RenderSome(pr, FormatLogger_info(formatted_msg), "render_info", ok)
      [] level = "Warn"  ->
            RenderSome(pr, FormatLogger_warn(formatted_msg), "render_warning", ok)
      [] level = "Error" ->
            Render(pr.backend, "render_error", FormatLogger_err(formatted_msg), ok)
      [] level = "Debug" ->
            IF pr.verbosity \in {"Verbose", "Trace"}
            THEN RenderSome(pr, FormatLogger_debug(formatted_msg), "render_debug", ok)
            ELSE << >>
      [] level = "Trace" ->
            IF pr.verbosity = "Trace"
            THEN RenderSome(pr, FormatLogger_trace(formatted_msg), "render_trace", ok)
            ELSE << >>
      [] level = "Progress" ->
            << Line("stdout", "println", "", formatted_msg, None, FALSE) >>

emit_event(pr, level, msg, fields, ok) ==
    IF pr.format = "Json" THEN emit_json_fields(pr, level, msg, Some(fields))
    ELSE emit_text_fields(pr, level, msg, Some(fields), ok)

\* Printer::emit_event called directly.
Printer_emit_event(p, level, m, fields, ok) ==
    Writes("emit_event", p, m, level, emit_event(printers[p], level, m, fields, ok))

\* ------------------------------------------------------------ LogEvent
\* state: "none" before the first builder, "live" while it is in scope,
\* "dropped" after.  emits counts the emit_event calls made for the event,
\* order remembers in which order the keys were first given to field().
NoEvent ==
    [state |-> "none", printer |-> 0, level |-> "", message |-> << >>,
     fields |-> << >>, emitted |-> FALSE, emits |-> 0, explicit |-> FALSE,
     order |-> << >>]

LogEvent_new(p, level, msg) ==
    /\ panicked = ""
    /\ ev.state # "live"
    /\ ev' = [state |-> "live", printer |-> p, level |-> level, message |-> msg,
              fields |-> << >>, emitted |-> FALSE, emits |-> 0, explicit |-> FALSE,
              order |-> << >>]
    /\ out' = << >>
    /\ call' = Call("LogEvent::new", p, msg, level)
    /\ UNCHANGED << thread, held, tally, prog, trail, barlog, QUIET, VERBOSE, LOGGER, printers, now, ticks, ret, opened, installed, panicked >>

\* The keys in the order of their first insertion.
Inserted(order, k) ==
    IF \E i \in DOMAIN order : order[i] = k THEN order ELSE Append(order, k)

LogEvent_field(k, v) ==
    /\ panicked = ""
    /\ ev.state = "live"
    /\ ev' = [ev EXCEPT !.fields = BTreeMap_insert(@, k, to_string(v)),
                        !.order = Inserted(@, k)]
    /\ out' = << >>
    /\ call' = Call("field", ev.printer, ev.message, ev.level)
    /\ UNCHANGED << thread, held, tally, prog, trail, barlog, QUIET, VERBOSE, LOGGER, printers, now, ticks, ret, opened, installed, panicked >>

\* The body of emit(): emit unless already emitted.
EmitWritten(e, ok) ==
    IF ~e.emitted
    THEN emit_event(printers[e.printer], e.level, e.message, e.fields, ok)
    ELSE << >>
EmitEvent(e) ==
    IF ~e.emitted
    THEN [e EXCEPT !.emitted = TRUE, !.emits = @ + 1, !.explicit = TRUE]
    ELSE e

\* Drop::drop: return if emitted, else take the fields and emit them.
DropWritten(e, ok) ==
    IF e.emitted THEN << >>
    ELSE emit_event(printers[e.printer], e.level, e.message, e.fields, ok)
DropEvent_Unguarded(e) ==
    [e EXCEPT !.state = "dropped", !.fields = << >>,
              !.emitted = TRUE, !.emits = @ + 1]
DropEvent(e) ==
    IF e.emitted THEN [e EXCEPT !.state = "dropped"]
    ELSE [e EXCEPT !.state = "dropped", !.fields = << >>,
                   !.emitted = TRUE, !.emits = @ + 1]

\* emit(self) takes the event by value: its body runs, then the event is
\* dropped at the end of the call.
LogEvent_emit(ok) ==
    /\ panicked = ""
    /\ ev.state = "live"
    /\ ev' = DropEvent(EmitEvent(ev))
    /\ out' = EmitWritten(ev, ok) \o DropWritten(EmitEvent(ev), ok)
    /\ call' = Call("emit", ev.printer, ev.message, ev.level)
    /\ UNCHANGED << thread, held, tally, prog, trail, barlog, QUIET, VERBOSE, LOGGER, printers, now, ticks, ret, opened, installed, panicked >>

\* The event goes out of scope without emit().
LogEvent_drop(ok) ==
    /\ panicked = ""
    /\ ev.state = "live"
    /\ ev' = DropEvent(ev)
    /\ out' = DropWritten(ev, ok)
    /\ call' = Call("drop", ev.printer, ev.message, ev.level)
    /\ UNCHANGED << thread, held, tally, prog, trail, barlog, QUIET, VERBOSE, LOGGER, printers, now, ticks, ret, opened, installed, panicked >>

\* ------------------------------------------------------ global logger
\* set_logger: leak the logger and store the reference.
StoredLogger_Kept(current, p) == current
StoredLogger(current, p) == p

\* The logger is moved into set_logger: a Printer can be given only once.
set_logger(p) ==
    /\ panicked = ""
    /\ \A i \in 1..Len(installed) : installed[i] # p
    /\ LOGGER' = StoredLogger(LOGGER, p)
    /\ installed' = Append(installed, p)
    /\ out' = << >>
    /\ call' = Call("set_logger", p, << >>, "")
    /\ UNCHANGED << thread, held, tally, prog, trail, barlog, QUIET, VERBOSE, printers, now, ticks, ret, opened, ev, panicked >>

\* logger(): LOGGER.expect("Logger not initialized")
LoggerPanics(current) == current = 0

\* The level of the event a facade function builds.
FacadeFns == {"ok", "warn", "err", "info", "dim", "intro", "outro", "done",
              "step", "debug", "trace"}
FacadeLevel(fn) ==
    CASE fn = "warn"  -> "Warn"
      [] fn = "err"   -> "Error"
      [] fn = "debug" -> "Debug"
      [] fn = "trace" -> "Trace"
      [] OTHER        -> "Info"

\* A facade call used as a statement, log::info("m"): the event is built on
\* logger() and dropped at once.
Facade(fn, m, ok) ==
    /\ panicked = ""
    /\ IF LoggerPanics(LOGGER)
       THEN /\ panicked' = "Logger not initialized"
            /\ out' = << >>
            /\ call' = Call("facade", 0, m, FacadeLevel(fn))
       ELSE /\ panicked' = ""
            /\ out' = emit_event(printers[LOGGER], FacadeLevel(fn), m, << >>, ok)
            /\ call' = Call("facade", LOGGER, m, FacadeLevel(fn))
    /\ UNCHANGED << thread, held, tally, prog, trail, barlog, QUIET, VERBOSE, LOGGER, printers, now, ticks, ret, opened, installed, ev >>

\* ------------------------------------------------------------ Progress
\* The Progress handle.  state is "none" before new, "live" while the
\* caller holds it, "finished" once finish has consumed it; depth remembers
\* the logger's task stack depth found by new.
NoProgress ==
    [state |-> "none", label |-> << >>, total |-> None, current |-> 0,
     finished |-> FALSE, depth |-> 0]

\* One call made on the global logger: a progress notification
\* (L.progress) or the event of a facade function.
ProgressNote(label, current, total, finished) ==
    [kind |-> "progress", fn |-> "progress", label |-> label, current |-> current,
     total |-> total, finished |-> finished]
EventNote(fn, msg) ==
    [kind |-> "event", fn |-> fn, label |-> msg, current |-> 0, total |-> None,
     finished |-> FALSE]

\* logger() panicked inside a Progress method.
ProgressPanic(op, label) ==
    /\ panicked' = "Logger not initialized"
    /\ out' = << >>
    /\ trail' = << >>
    /\ call' = Call(op, 0, label, "")
    /\ UNCHANGED << printers, barlog >>

\* Progress::new and Progress::with_total: `let _ = intro(label)` builds an
\* Info event and drops it at once, then the handle is made.
Progress_start(op, label, total, ok) ==
    /\ panicked = ""
    /\ prog.state # "live"
    /\ IF LoggerPanics(LOGGER)
       THEN ProgressPanic(op, label) /\ UNCHANGED prog
       ELSE /\ out' = emit_event(printers[LOGGER], FacadeLevel("intro"), label, << >>, ok)
            /\ trail' = << EventNote("intro", label) >>
            /\ prog' = [state |-> "live", label |-> label, total |-> total,
                        current |-> 0, finished |-> FALSE,
                        depth |-> Len(printers[LOGGER].tasks)]
            /\ call' = Call(op, LOGGER, label, "")
            /\ UNCHANGED << printers, barlog, panicked >>
    /\ UNCHANGED << thread, held, tally, QUIET, VERBOSE, LOGGER, now, ticks, ret, opened, installed, ev >>

Progress_new(label, ok) == Progress_start("Progress::new", label, None, ok)
Progress_with_total(label, total, ok) ==
    Progress_start("Progress::with_total", label, Some(total), ok)

\* The fields are assigned, then L.progress(label, current, total, false).
Progress_notify(op, current, total) ==
    /\ panicked = ""
    /\ prog.state = "live"
    /\ Len(barlog) < MaxBarCalls
    /\ prog' = [prog EXCEPT !.current = current, !.total = total]
    /\ IF LoggerPanics(LOGGER)
       THEN ProgressPanic(op, prog.label)
       ELSE /\ out' = ProgressWritten(printers[LOGGER], prog.label, current, total, FALSE)
            /\ printers' = [printers EXCEPT
                    ![LOGGER] = ProgressPrinter(@, prog.label, current, total, FALSE)]
            /\ barlog' = ProgressLog(barlog, printers[LOGGER], prog.label, total, FALSE)
            /\ trail' = << ProgressNote(prog.label, current, total, FALSE) >>
            /\ call' = Call(op, LOGGER, prog.label, "")
            /\ UNCHANGED panicked
    /\ UNCHANGED << thread, held, tally, QUIET, VERBOSE, LOGGER, now, ticks, ret, opened, installed, ev >>

Progress_update(current, total) ==
    Progress_notify("Progress::update", current, Some(total))

Progress_tick_KeepsCurrent ==
    /\ prog.current < MaxCurrent
    /\ Progress_notify("Progress::tick", prog.current, prog.total)
Progress_tick ==
    /\ prog.current < MaxCurrent
    /\ Progress_notify("Progress::tick", prog.current + 1, prog.total)

\* Progress::finish: nothing if already finished; else the final
\* notification, then `let _ = outro(msg)` and `let _ = done()`, each an
\* Info event dropped at once.
Progress_finish(msg, ok1, ok2) ==
    /\ panicked = ""
    /\ prog.state = "live"
    /\ Len(barlog) < MaxBarCalls
    /\ IF prog.finished
       THEN /\ out' = << >>
            /\ trail' = << >>
            /\ prog' = [prog EXCEPT !.state = "finished"]
            /\ call' = Call("Progress::finish", LOGGER, msg, "")
            /\ UNCHANGED << printers, barlog, panicked >>
       ELSE IF LoggerPanics(LOGGER)
       THEN ProgressPanic("Progress::finish", msg) /\ UNCHANGED prog
       ELSE LET pr == printers[LOGGER] IN
            /\ out' = ProgressWritten(pr, msg, prog.current, prog.total, TRUE)
                      \o emit_event(pr, FacadeLevel("outro"), msg, << >>, ok1)
                      \o emit_event(pr, FacadeLevel("done"), << "done" >>, << >>, ok2)
            /\ printers' = [printers EXCEPT
                    ![LOGGER] = ProgressPrinter(@, msg, prog.current, prog.total, TRUE)]
            /\ barlog' = ProgressLog(barlog, pr, msg, prog.total, TRUE)
            /\ trail' = << ProgressNote(msg, prog.current, prog.total, TRUE),
                           EventNote("outro", msg), EventNote("done", << "done" >>) >>
            /\ prog' = [prog EXCEPT !.state = "finished", !.finished = TRUE]
            /\ call' = Call("Progress::finish", LOGGER, msg, "")
            /\ UNCHANGED panicked
    /\ UNCHANGED << thread, held, tally, QUIET, VERBOSE, LOGGER, now, ticks, ret, opened, installed, ev >>

\* ------------------------------------------------- formatter, called alone
FormatKinds == {"ok", "warn", "info", "dim", "intro", "outro", "done", "step",
                "debug", "trace"}

FormatLogger_call(kind, m) ==
    CASE kind = "ok"    -> FormatLogger_ok(m)
      [] kind = "warn"  -> FormatLogger_warn(m)
      [] kind = "info"  -> FormatLogger_info(m)
      [] kind = "dim"   -> FormatLogger_dim(m)
      [] kind = "intro" -> FormatLogger_intro(m)
      [] kind = "outro" -> FormatLogger_outro(m)
      [] kind = "done"  -> FormatLogger_done
      [] kind = "step"  -> FormatLogger_step(m)
      [] kind = "debug" -> FormatLogger_debug(m)
      [] kind = "trace" -> FormatLogger_trace(m)

Format(kind, m) ==
    /\ panicked = ""
    /\ ret' = FormatLogger_call(kind, m)
    /\ out' = << >>
    /\ call' = Call("format", 0, m, kind)
    /\ UNCHANGED << thread, held, tally, prog, trail, barlog, QUIET, VERBOSE, LOGGER, printers, now, ticks, opened, installed, ev, panicked >>

\* ------------------------------------------- one Printer, several threads
\* Threads call the operations of one shared Printer (printers[1]).  An
\* operation is a sequence of steps: a formatter call with its render, a
\* lock() of a stack's Mutex, and the Vec operation after which the guard is
\* dropped.  The task Vec is read and written back in two steps, which only
\* the lock makes one.
Threads == 1..MaxThreads

\* op is the operation the thread is inside, s the formatter's string,
\* view the task Vec as the thread read it, task what pop() returned.
Idle == [pc |-> "idle", op |-> "", m |-> << >>, s |-> None, view |-> << >>,
         task |-> None]
NoHolder == [tasks |-> 0, steps |-> 0]

\* Mutex::lock returns once no other thread holds the guard.
LockFree_Always(lock) == TRUE
LockFree(lock) == held[lock] = 0

\* The variables no thread step changes.
ThreadFrame ==
    UNCHANGED << QUIET, VERBOSE, LOGGER, now, ticks, ret, installed, ev, panicked,
                 prog, trail, barlog >>

\* A thread enters an operation.
Enters(t, op, m) ==
    /\ panicked = ""
    /\ Len(printers) = 1
    /\ thread[t].pc = "idle"
    /\ tally.calls < MaxCalls
    /\ call' = Call(op, 1, m, "")

\* intro: the formatter's string is rendered, then the task is pushed.
Thread_intro(t, m, ok) ==
    /\ Enters(t, "intro", m)
    /\ tally.pushed + Cardinality({ u \in Threads : thread[u].op = "intro" }) < MaxTasks
    /\ out' = IntroWritten(printers[1], m, ok)
    /\ thread' = [thread EXCEPT ![t] = [Idle EXCEPT !.pc = "lock_tasks", !.op = "intro",
                                                     !.m = m]]
    /\ tally' = [tally EXCEPT !.calls = @ + 1]
    /\ opened' = [opened EXCEPT ![1] = @ + 1]
    /\ UNCHANGED << printers, held >>
    /\ ThreadFrame

\* outro and done: Json emits and returns; Text goes on to clear the steps.
Thread_close(t, op, m, s) ==
    /\ Enters(t, op, m)
    /\ out' = IF s # None /\ printers[1].format = "Json"
              THEN emit_json(printers[1], "Info", s[1]) ELSE << >>
    /\ thread' = [thread EXCEPT ![t] =
            IF s # None /\ printers[1].format = "Text"
            THEN [Idle EXCEPT !.pc = "lock_steps", !.op = op, !.m = m, !.s = s]
            ELSE Idle]
    /\ tally' = [tally EXCEPT !.calls = @ + 1]
    /\ opened' = [opened EXCEPT ![1] = Closed(@)]
    /\ UNCHANGED << printers, held >>
    /\ ThreadFrame

Thread_outro(t, m) == Thread_close(t, "outro", m, FormatLogger_outro(m))
Thread_done(t)     == Thread_close(t, "done", << >>, FormatLogger_done)

\* step: the string is rendered; at verbose the step is then pushed and
\* the string goes to tracing.
Thread_step(t, m, ok) ==
    LET s == FormatLogger_step(m) IN
    /\ Enters(t, "step", m)
    /\ Len(printers[1].steps)
         + Cardinality({ u \in Threads : thread[u].op = "step" }) < MaxSteps
    /\ out' = IF s = None THEN << >>
              ELSE IF printers[1].format = "Json" THEN emit_json(printers[1], "Info", s[1])
              ELSE Render(printers[1].backend, "render_step", s[1], ok)
    /\ thread' = [thread EXCEPT ![t] =
            IF s # None /\ printers[1].format = "Text" /\ is_verbose
            THEN [Idle EXCEPT !.pc = "lock_steps", !.op = "step", !.m = m, !.s = s]
            ELSE Idle]
    /\ tally' = [tally EXCEPT !.calls = @ + 1]
    /\ UNCHANGED << printers, held, opened >>
    /\ ThreadFrame

\* dump_task_tree: returns unless verbose, else goes for the task lock.
Thread_dump_tree(t) ==
    /\ Enters(t, "dump_tree", << >>)
    /\ out' = << >>
    /\ thread' = [thread EXCEPT ![t] =
            IF is_verbose THEN [Idle EXCEPT !.pc = "lock_tasks", !.op = "dump_tree"]
            ELSE Idle]
    /\ tally' = [tally EXCEPT !.calls = @ + 1]
    /\ UNCHANGED << printers, held, opened >>
    /\ ThreadFrame

\* self.steps.lock().unwrap() / self.tasks.lock().unwrap()
Thread_lock(t) ==
    LET th == thread[t]
        lock == IF th.pc = "lock_steps" THEN "steps" ELSE "tasks" IN
    /\ panicked = ""
    /\ th.pc \in {"lock_steps", "lock_tasks"}
    /\ LockFree(lock)
    /\ held' = [held EXCEPT ![lock] = t]
    /\ thread' = [thread EXCEPT ![t].pc =
            CASE th.pc = "lock_steps" /\ th.op = "step" -> "push_step"
              [] th.pc = "lock_steps"                   -> "clear"
              [] th.op = "intro"                        -> "read"
              [] th.op = "dump_tree"                    -> "print"
              [] OTHER                                  -> "read"]
    /\ out' = << >>
    /\ call' = Call(th.op, 1, th.m, "")
    /\ UNCHANGED << printers, tally, opened >>
    /\ ThreadFrame

\* .clear() on the steps, and the guard is dropped.
Thread_clear(t) ==
    /\ panicked = ""
    /\ thread[t].pc = "clear"
    /\ printers' = [printers EXCEPT ![1].steps = Vec_clear(@)]
    /\ held' = [held EXCEPT !.steps = 0]
    /\ thread' = [thread EXCEPT ![t].pc = "lock_tasks"]
    /\ out' = << >>
    /\ call' = Call(thread[t].op, 1, thread[t].m, "")
    /\ UNCHANGED << tally, opened >>
    /\ ThreadFrame

\* .push(sp) on the steps, the guard is dropped, then info!("{s}").
Thread_push_step(t) ==
    /\ panicked = ""
    /\ thread[t].pc = "push_step"
    /\ printers' = [printers EXCEPT ![1].steps = Vec_push(@, thread[t].m)]
    /\ held' = [held EXCEPT !.steps = 0]
    /\ thread' = [thread EXCEPT ![t].pc = "trace_step"]
    /\ out' = << >>
    /\ call' = Call(thread[t].op, 1, thread[t].m, "")
    /\ UNCHANGED << tally, opened >>
    /\ ThreadFrame

Thread_trace_step(t) ==
    /\ panicked = ""
    /\ thread[t].pc = "trace_step"
    /\ out' = Tracing("INFO", thread[t].s[1])
    /\ thread' = [thread EXCEPT ![t] = Idle]
    /\ call' = Call(thread[t].op, 1, thread[t].m, "")
    /\ UNCHANGED << printers, held, tally, opened >>
    /\ ThreadFrame

\* The task Vec as the thread finds it.
Thread_read(t) ==
    /\ panicked = ""
    /\ thread[t].pc = "read"
    /\ thread' = [thread EXCEPT ![t].view = printers[1].tasks, ![t].pc = "write"]
    /\ out' = << >>
    /\ call' = Call(thread[t].op, 1, thread[t].m, "")
    /\ UNCHANGED << printers, held, tally, opened >>
    /\ ThreadFrame

\* .push(TimedSpan { .. }) or .pop() written back; the guard is dropped.
Thread_write(t) ==
    LET th == thread[t] IN
    /\ panicked = ""
    /\ th.pc = "write"
    /\ IF th.op = "intro"
       THEN /\ printers' = [printers EXCEPT ![1].tasks =
                    Vec_push(th.view, TimedSpan(NewSpan(th.view), now, th.m))]
            /\ thread' = [thread EXCEPT ![t] = Idle]
            /\ tally' = [tally EXCEPT !.pushed = @ + 1]
       ELSE /\ printers' = [printers EXCEPT ![1].tasks = Vec_popped(th.view)]
            /\ thread' = [thread EXCEPT ![t].task = Vec_pop(th.view),
                                        ![t].view = << >>,
                                        ![t].pc = "render_close"]
            /\ tally' = [tally EXCEPT !.popped =
                            IF Vec_pop(th.view) # None THEN @ + 1 ELSE @]
    /\ held' = [held EXCEPT !.tasks = 0]
    /\ out' = << >>
    /\ call' = Call(th.op, 1, th.m, "")
    /\ UNCHANGED opened
    /\ ThreadFrame

\* outro and done render their line for the task they popped.
Thread_render_close(t, ok) ==
    LET th == thread[t]
        msg == OutroMsg(th.s[1], th.task) IN
    /\ panicked = ""
    /\ th.pc = "render_close"
    /\ out' = Render(printers[1].backend, "render_outro", msg, ok)
              \o (IF is_verbose THEN Tracing("INFO", msg) ELSE << >>)
    /\ thread' = [thread EXCEPT ![t] = Idle]
    /\ call' = Call(th.op, 1, th.m, "")
    /\ UNCHANGED << printers, held, tally, opened >>
    /\ ThreadFrame

\* dump_task_tree prints with the guard of the task lock in scope; the
\* guard is dropped when the function returns.
Thread_print(t) ==
    /\ panicked = ""
    /\ thread[t].pc = "print"
    /\ out' = dump_task_tree(printers[1])
    /\ held' = [held EXCEPT !.tasks = 0]
    /\ thread' = [thread EXCEPT ![t] = Idle]
    /\ call' = Call(thread[t].op, 1, thread[t].m, "")
    /\ UNCHANGED << printers, tally, opened >>
    /\ ThreadFrame

\* ------------------------------------------------------ specifications
Texts     == { << m >> : m \in Msgs }
TaskTexts == { << m >> : m \in Labels }
P == 1..Len(printers)

Init ==
    /\ QUIET = FALSE
    /\ VERBOSE = FALSE
    /\ LOGGER = 0
    /\ printers = << >>
    /\ now = 0
    /\ ticks = 0
    /\ out = << >>
    /\ call = Call("init", 0, << >>, "")
    /\ ret = None
    /\ opened = << >>
    /\ installed = << >>
    /\ ev = NoEvent
    /\ panicked = ""
    /\ prog = NoProgress
    /\ trail = << >>
    /\ barlog = << >>
    /\ thread = [t \in Threads |-> Idle]
    /\ held = NoHolder
    /\ tally = [calls |-> 0, pushed |-> 0, popped |-> 0]

NewPrinter ==
    \E b \in Backends, f \in Formats, v \in Verbosities : Printer_new(b, f, v)

\* A process that constructs a single Printer.
OnePrinter == printers = << >> /\ NewPrinter

Intro == \E p \in P, m \in TaskTexts :
            \E ok \in RenderOutcomes(printers[p].backend) : Printer_intro(p, m, ok)
Outro == \E p \in P, m \in TaskTexts :
            \E ok \in RenderOutcomes(printers[p].backend) : Printer_outro(p, m, ok)
Done  == \E p \in P :
            \E ok \in RenderOutcomes(printers[p].backend) : Printer_done(p, ok)
Step  == \E p \in P, m \in TaskTexts :
            \E ok \in RenderOutcomes(printers[p].backend) : Printer_step(p, m, ok)

\* The task and step stacks of the Printers.
NextTasks == OnePrinter \/ Tick \/ Intro \/ Outro \/ Done \/ Step
SpecTasks == Init /\ [][NextTasks]_vars

\* The leveled operations and structured events of the Printers.
FieldMaps == { << >>, << << "role", "admin" >> >> }

Ok    == \E p \in P, m \in Texts :
            \E ok \in RenderOutcomes(printers[p].backend) : Printer_ok(p, m, ok)
Warn  == \E p \in P, m \in Texts :
            \E ok \in RenderOutcomes(printers[p].backend) : Printer_warn(p, m, ok)
Err   == \E p \in P, m \in Texts :
            \E ok \in RenderOutcomes(printers[p].backend) : Printer_err(p, m, ok)
Info  == \E p \in P, m \in Texts :
            \E ok \in RenderOutcomes(printers[p].backend) : Printer_info(p, m, ok)
Dim   == \E p \in P, m \in Texts :
            \E ok \in RenderOutcomes(printers[p].backend) : Printer_dim(p, m, ok)
Debug == \E p \in P, m \in Texts : Printer_debug(p, m)
Trace == \E p \in P, m \in Texts : Printer_trace(p, m)
EmitEventCall ==
    \E p \in P, level \in Levels, m \in Texts, f \in FieldMaps :
        \E ok \in RenderOutcomes(printers[p].backend) :
            Printer_emit_event(p, level, m, f, ok)

NextLevels == NewPrinter \/ Ok \/ Warn \/ Err \/ Info \/ Dim \/ Debug \/ Trace
                \/ EmitEventCall
SpecLevels == Init /\ [][NextLevels]_vars

\* The FormatLogger default methods under the process-wide flags.
FormatCall == \E kind \in FormatKinds, m \in Texts : Format(kind, m)
NextFormat == NewPrinter \/ FormatCall
SpecFormat == Init /\ [][NextFormat]_vars

\* The LogEvent builder on one Printer.
EventNew   == \E p \in P, level \in Levels, m \in Texts : LogEvent_new(p, level, m)
EventField == \E k \in Keys, v \in Vals : LogEvent_field(k, v)
EventEmit  == /\ ev.state = "live"
              /\ \E ok \in RenderOutcomes(printers[ev.printer].backend) : LogEvent_emit(ok)
EventDrop  == /\ ev.state = "live"
              /\ \E ok \in RenderOutcomes(printers[ev.printer].backend) : LogEvent_drop(ok)
NextEvent  == OnePrinter \/ EventNew \/ EventField \/ EventEmit \/ EventDrop
SpecEvent  == Init /\ [][NextEvent]_vars

\* The global logger and the facade functions.
SetLogger  == \E p \in P : set_logger(p)
FacadeCall == \E fn \in FacadeFns, m \in Texts :
                \E ok \in (IF LOGGER = 0 THEN {TRUE}
                           ELSE RenderOutcomes(printers[LOGGER].backend)) :
                    Facade(fn, m, ok)
NextGlobal == NewPrinter \/ SetLogger \/ FacadeCall
SpecGlobal == Init /\ [][NextGlobal]_vars

\* The Progress handle on the global logger.
OneLogger == LOGGER = 0 /\ SetLogger
ProgressNew == \E m \in TaskTexts, ok \in BOOLEAN : Progress_new(m, ok)
ProgressWithTotal ==
    \E m \in TaskTexts, t \in Counts, ok \in BOOLEAN : Progress_with_total(m, t, ok)
ProgressUpdate == \E c \in Counts, t \in Counts : Progress_update(c, t)
ProgressTick == Progress_tick
ProgressFinish ==
    \E m \in TaskTexts, ok1 \in BOOLEAN, ok2 \in BOOLEAN : Progress_finish(m, ok1, ok2)

\* A task opened on the logger by the caller, around the handle's use.
OuterIntro == \E p \in P :
                prog.state # "live" /\
                \E ok \in RenderOutcomes(printers[p].backend) :
                    Printer_intro(p, << "outer" >>, ok)

NextProgress ==
    \/ OnePrinter \/ OneLogger \/ OuterIntro
    \/ ProgressNew \/ ProgressWithTotal \/ ProgressUpdate \/ ProgressTick \/ ProgressFinish
SpecProgress == Init /\ [][NextProgress]_vars

\* render_progress calls of several streams on one Printer.  A stream is
\* its label: no call is made for a label after its finished call.
StreamOpen(label) ==
    \A i \in 1..Len(barlog) : ~(barlog[i].label = label /\ barlog[i].finished)
ProgressCall ==
    \E p \in P, m \in TaskTexts, c \in Counts, t \in {None, Some(MaxCurrent)},
       f \in BOOLEAN :
        StreamOpen(m) /\ Printer_progress(p, m, c, t, f)
DumpTree == \E p \in P : Printer_dump_tree(p)

NextBars == OnePrinter \/ ProgressCall \/ DumpTree \/ OuterIntro
SpecBars == Init /\ [][NextBars]_vars

\* The SimpleBackend alone.
\* The strings a backend is handed: messages as the formatter returns them.
FormattedTexts ==
    UNION { { ok_raw(m), warn_raw(m), err_raw(m), info_raw(m), dim_raw(m), intro_raw(m),
              outro_raw(m), step_raw(m), debug_raw(m), trace_raw(m) } :
            m \in Texts \cup TaskTexts }

BackendRender ==
    \E method \in RenderMethods, m \in FormattedTexts : SimpleBackend_render(method, m)
BackendProgress ==
    \E m \in TaskTexts, c \in Counts, t \in Totals, f \in BOOLEAN :
        SimpleBackend_progress(m, c, t, f)
NextBackend == BackendRender \/ BackendProgress
SpecBackend == Init /\ [][NextBackend]_vars

\* Tasks that stay open for milliseconds and for seconds.
Nap == \E d \in Naps : Sleep(d)
NextTiming == OnePrinter \/ Nap \/ Intro \/ Outro \/ Done
SpecTiming == Init /\ [][NextTiming]_vars

\* Tasks opened and closed over time, and the snapshot of the open ones.
NextTree == OnePrinter \/ Tick \/ Intro \/ Done \/ DumpTree
SpecTree == Init /\ [][NextTree]_vars

\* Threads on one shared Printer.
ThreadIntro == \E t \in Threads, m \in Texts :
                 Len(printers) = 1 /\
                 \E ok \in RenderOutcomes(printers[1].backend) : Thread_intro(t, m, ok)
ThreadOutro == \E t \in Threads, m \in Texts : Thread_outro(t, m)
ThreadDone  == \E t \in Threads : Thread_done(t)
ThreadStep  == \E t \in Threads, m \in Texts :
                 Len(printers) = 1 /\
                 \E ok \in RenderOutcomes(printers[1].backend) : Thread_step(t, m, ok)
ThreadDumpTree == \E t \in Threads : Thread_dump_tree(t)
ThreadLock  == \E t \in Threads : Thread_lock(t)
ThreadClear == \E t \in Threads : Thread_clear(t)
ThreadPushStep  == \E t \in Threads : Thread_push_step(t)
ThreadTraceStep == \E t \in Threads : Thread_trace_step(t)
ThreadRead  == \E t \in Threads : Thread_read(t)
ThreadWrite == \E t \in Threads : Thread_write(t)
ThreadRenderClose ==
    \E t \in Threads :
        Len(printers) = 1 /\
        \E ok \in RenderOutcomes(printers[1].backend) : Thread_render_close(t, ok)
ThreadPrint == \E t \in Threads : Thread_print(t)

NextThreads ==
    \/ OnePrinter
    \/ ThreadIntro \/ ThreadOutro \/ ThreadDone \/ ThreadStep \/ ThreadDumpTree
    \/ ThreadLock \/ ThreadClear \/ ThreadPushStep \/ ThreadTraceStep
    \/ ThreadRead \/ ThreadWrite \/ ThreadRenderClose \/ ThreadPrint
SpecThreads == Init /\ [][NextThreads]_vars

\* Everything together.
Next ==
    \/ NextTasks \/ NextLevels \/ NextFormat \/ NextEvent \/ NextGlobal
    \/ NextProgress \/ NextBars \/ NextBackend \/ NextTiming \/ NextTree
    \/ NextThreads
Spec == Init /\ [][Next]_vars

\* ------------------------------------------------------------- claims
PrinterOf(c) == printers[c.p]

\* C1: over a LogEvent's lifetime emit_event is invoked exactly once: not
\* before the event is emitted or dropped, once by the time it is dropped,
\* whether emit() was called or the event just went out of scope.
C1_EmittedExactlyOnce ==
    /\ ev.state = "live" => ev.emits = 0
    /\ ev.state = "dropped" => ev.emits = 1

\* An event with two fields that was emitted explicitly and then dropped.
C1_Witness ==
    ev.state = "dropped" /\ ev.explicit /\ Len(ev.fields) = 2 /\ ev.emits = 1

\* C2: when an outro or done has answered the last unanswered intro of a
\* Printer, its task stack and its step stack are both empty, in either
\* format and at any verbosity.
C2_ClosedTasksLeaveStacksEmpty ==
    (call.op \in {"outro", "done"} /\ opened[call.p] = 0)
        => (PrinterOf(call).tasks = << >> /\ PrinterOf(call).steps = << >>)

\* C3: an outro or done that finds open tasks removes the most recently
\* opened one and no other, and a timing it reports is the time since that
\* task's own intro.
Newest(tasks) ==
    CHOOSE t \in { tasks[i] : i \in 1..Len(tasks) } :
        \A i \in 1..Len(tasks) : tasks[i].span <= t.span

C3_ClosePopsNewestAndTimesIt ==
    [][ \A p \in P :
          (call'.op \in {"outro", "done"} /\ call'.p = p /\ printers[p].tasks # << >>)
          => LET newest == Newest(printers[p].tasks) IN
             /\ printers'[p].tasks =
                    SelectSeq(printers[p].tasks, LAMBDA t : t # newest)
             /\ \A i \in DOMAIN out' :
                    Contains(out'[i].text, << "(took" >>)
                    => Contains(out'[i].text,
                            << "(took" >> \o format_duration(now - newest.start)
                                \o << ")" >>) ]_vars

\* C4: right after any outro or done the Printer's step stack is empty.
C4_CloseEmptiesSteps ==
    call.op \in {"outro", "done"} => PrinterOf(call).steps = << >>

\* An outro that found two open steps.
C4_Witness ==
    call.op = "outro" /\ call.steps >= 2 /\ PrinterOf(call).steps = << >>

IsErrorCall ==
    call.op = "err" \/ (call.op = "emit_event" /\ call.level = "Error")

\* C5 as stated: err(m) and an Error-level structured event write exactly
\* one line containing m to the error stream, at every verbosity and in
\* both formats.
C5_ErrWritesExactlyOneLine ==
    IsErrorCall
        => Cardinality({ i \in DOMAIN out :
                            out[i].stream = "stderr" /\ Contains(out[i].text, call.m) }) = 1

\* C5 as amended: err(m) and an Error-level structured event are never
\* suppressed; every line they write contains m and goes to the error stream.
\* Json format writes exactly one line.  In Text format Printer::err makes
\* the backend's render_error call and logs a tracing ERROR event, and a
\* structured event makes the render_error call alone; that call's line is
\* lost only when the backend returns an error, which SimpleBackend never
\* does.
C5_ErrNeverSuppressed ==
    IsErrorCall =>
        LET pr == PrinterOf(call) IN
        /\ \A i \in DOMAIN out :
                /\ Contains(out[i].text, call.m)
                /\ out[i].stream \in {"stderr", "failed"}
                /\ out[i].stream = "failed"
                        => (out[i].via = "render_error" /\ pr.backend # "Simple")
        /\ pr.format = "Json" => (Len(out) = 1 /\ out[1].stream = "stderr")
        /\ (pr.format = "Text" /\ call.op = "err")
                => /\ Len(out) = 2
                   /\ out[1].via = "render_error"
                   /\ out[2].via = "tracing" /\ out[2].stream = "stderr"
        /\ (pr.format = "Text" /\ call.op = "emit_event")
                => (Len(out) = 1 /\ out[1].via = "render_error")

\* err on a Quiet Text Printer: the backend's line and the tracing event.
C5_Witness ==
    /\ call.op = "err"
    /\ PrinterOf(call).verbosity = "Quiet" /\ PrinterOf(call).format = "Text"
    /\ Len(out) = 2 /\ out[1].stream = "stderr" /\ out[2].stream = "stderr"

\* C6: on a Printer of Quiet verbosity ok, warn, info, dim, intro, step,
\* debug and trace write nothing to standard output, in either format.
C6_QuietWritesNoStdout ==
    (/\ call.op \in {"ok", "warn", "info", "dim", "intro", "step", "debug", "trace"}
     /\ PrinterOf(call).verbosity = "Quiet")
        => \A i \in DOMAIN out : out[i].stream # "stdout"

\* C7: debug (the operation, and a Debug-level structured event) writes
\* if and only if the Printer's verbosity is Verbose or Trace, and trace (the
\* operation, and a Trace-level structured event) if and only if it is Trace.
C7_DebugTraceGating ==
    /\ (call.op = "debug" \/ (call.op = "emit_event" /\ call.level = "Debug"))
        => (out # << >> <=> PrinterOf(call).verbosity \in {"Verbose", "Trace"})
    /\ (call.op = "trace" \/ (call.op = "emit_event" /\ call.level = "Trace"))
        => (out # << >> <=> PrinterOf(call).verbosity = "Trace")

C9_FirstLoggerStays ==
    installed # << >> =>
        /\ LOGGER = installed[1]
        /\ (call.op = "facade" /\ panicked = "") => call.p = installed[1]

\* C10: a facade call panics with "Logger not initialized" exactly when no
\* set_logger has completed, and nothing else makes the process panic.
C10_PanicsIffNoLogger ==
    /\ call.op = "facade"
        => /\ panicked # "" <=> installed = << >>
           /\ panicked \in {"", "Logger not initialized"}
    /\ panicked # "" => call.op = "facade"

\* A facade call made while a Printer exists but none is installed.
C10_Witness ==
    /\ call.op = "facade" /\ installed = << >> /\ printers # << >>
    /\ panicked = "Logger not initialized"

\* The calls of one kind the most recent operation made on the logger.
TrailOf(kind) == { i \in DOMAIN trail : trail[i].kind = kind }

\* C11: a finish(msg) that returns has made exactly one progress
\* notification with finished = true labelled msg, exactly one task-closing
\* event (outro or done), and the logger's task stack has the depth it had
\* before new.
C11_FinishClosesOnce ==
    (call.op = "Progress::finish" /\ panicked = "") =>
        /\ Cardinality({ i \in TrailOf("progress") :
                            trail[i].finished /\ trail[i].label = call.m }) = 1
        /\ Cardinality({ i \in TrailOf("event") :
                            trail[i].fn \in {"outro", "done"} }) = 1
        /\ Len(PrinterOf(call).tasks) = prog.depth

\* C12: a tick that returns raises current by exactly 1 and leaves total
\* and label alone, an update(c, t) that returns sets current = c and
\* total = Some(t), and each makes exactly one call on the logger: a progress
\* notification with the handle's label, the new current and total, and
\* finished = false.
NotifiesOnce ==
    trail' = << ProgressNote(prog'.label, prog'.current, prog'.total, FALSE) >>

C12_TickAndUpdate ==
    [][ /\ (call'.op = "Progress::tick" /\ panicked' = "")
            => /\ prog'.current = prog.current + 1
               /\ prog'.total = prog.total /\ prog'.label = prog.label
               /\ NotifiesOnce
        /\ \A c \in Counts, t \in Counts :
            (Progress_update(c, t) /\ panicked' = "")
            => /\ prog'.current = c /\ prog'.total = Some(t)
               /\ prog'.label = prog.label
               /\ NotifiesOnce ]_vars

\* A tick on a handle with a known total that brought current to 2.
C12_Witness ==
    /\ call.op = "Progress::tick" /\ panicked = ""
    /\ prog.current = 2 /\ prog.total # None
    /\ trail = << ProgressNote(prog.label, 2, prog.total, FALSE) >>

\* C13: on a ModernBackend, whatever the interleaving of the streams'
\* render_progress calls, a finished call works on the indicator started for
\* its own label, every label that made a call had its indicator started
\* exactly once, and an indicator is stopped exactly once if its label made a
\* finished call and not at all otherwise.
CallsOf(label) == { i \in DOMAIN barlog : barlog[i].label = label }

C13_StreamsIndependent ==
    /\ \A i \in DOMAIN barlog :
            barlog[i].finished => barlog[i].owner = barlog[i].label
    /\ \A label \in TaskTexts :
            CallsOf(label) # {} =>
                /\ Cardinality({ i \in CallsOf(label) : barlog[i].started }) = 1
                /\ Cardinality({ i \in DOMAIN barlog :
                                    barlog[i].stopped /\ barlog[i].owner = label })
                   = (IF \E i \in CallsOf(label) : barlog[i].finished THEN 1 ELSE 0)

\* C14: an operation whose backend render call returned an error does not
\* panic and leaves the stacks as a successful call does: intro has pushed
\* its task, outro and done have popped the top task and cleared the steps,
\* step has pushed its step when verbose, and any other operation has left
\* both stacks alone.
RenderFailed(lines) == \E i \in DOMAIN lines : lines[i].stream = "failed"

C14_RenderErrorsSwallowed ==
    [][ \A p \in P :
          (call'.p = p /\ RenderFailed(out')) =>
            LET before == printers[p]
                after  == printers'[p]
            IN  /\ panicked' = ""
                /\ call'.op = "intro" =>
                        /\ Len(after.tasks) = Len(before.tasks) + 1
                        /\ Front(after.tasks) = before.tasks
                        /\ Last(after.tasks).label = call'.m
                        /\ Last(after.tasks).start = now
                        /\ after.steps = before.steps
                /\ call'.op \in {"outro", "done"} =>
                        /\ after.tasks = IF before.tasks = << >> THEN << >>
                                         ELSE Front(before.tasks)
                        /\ after.steps = << >>
                /\ call'.op = "step" =>
                        /\ after.tasks = before.tasks
                        /\ after.steps = IF is_verbose THEN Append(before.steps, call'.m)
                                         ELSE before.steps
                /\ call'.op \notin {"intro", "outro", "done", "step"} =>
                        (after.tasks = before.tasks /\ after.steps = before.steps) ]_vars

\* An outro whose render call failed, with two tasks and a step open.
C14_Witness ==
    /\ call.op = "outro" /\ RenderFailed(out) /\ panicked = ""
    /\ call.tasks = 2 /\ call.steps >= 1
    /\ Len(PrinterOf(call).tasks) = 1 /\ PrinterOf(call).steps = << >>

\* C15: every line an operation of a Json-format Printer writes is one
\* JSON object (written by emit_json_fields, with its message) whose level
\* is one of info, warn, error, debug, trace.
JsonLevelNames == {"info", "warn", "error", "debug", "trace"}

C15_JsonLinesAreObjects ==
    (call.p \in P /\ PrinterOf(call).format = "Json") =>
        \A i \in DOMAIN out :
            out[i].via = "json" /\ out[i].level \in JsonLevelNames

\* C16: a JSON line is written to the error stream if and only if its
\* level is error; every other JSON line is written to standard output.
C16_JsonErrorStream ==
    \A i \in DOMAIN out :
        out[i].via = "json" =>
            /\ out[i].stream \in {"stdout", "stderr"}
            /\ out[i].stream = "stderr" <=> out[i].level = "error"

\* err on a Json Printer: one JSON line on the error stream.
C16_Witness ==
    /\ call.op = "err" /\ PrinterOf(call).format = "Json"
    /\ Len(out) = 1 /\ out[1].via = "json"
    /\ out[1].level = "error" /\ out[1].stream = "stderr"

\* C17: the JSON line of a structured event has a fields member if and
\* only if the event's field map is not empty when it is emitted.
IsEmission(c) == c.op \in {"emit", "drop"}

C17_FieldsMemberIffAttached ==
    [][ (IsEmission(call') /\ printers[ev.printer].format = "Json") =>
            /\ Len(out') = 1 /\ out'[1].via = "json"
            /\ out'[1].fields # None <=> ev.fields # << >> ]_vars

\* A dropped event with no field whose JSON line has no fields member.
C17_Witness ==
    /\ call.op = "drop" /\ PrinterOf(call).format = "Json"
    /\ ev.state = "dropped" /\ ev.emits = 1
    /\ Len(out) = 1 /\ out[1].via = "json" /\ out[1].fields = None

\* The value a field map holds for a key, as an Option.
Get(f, k) ==
    IF \E i \in DOMAIN f : f[i][1] = k
    THEN Some(f[CHOOSE i \in DOMAIN f : f[i][1] = k][2])
    ELSE None

\* The string form of a value given to field(): 42 is "42".
StringForm(v) == IF v.tag = "int" /\ v.n = 42 THEN "42" ELSE v.s

\* C18: field(k, v) leaves the map with the string form of v under k,
\* every other key as it was and no key twice; and the fields object of the
\* JSON line of an event holds exactly the map's entries.
C18_FieldMapAndJson ==
    [][ /\ \A k \in Keys, v \in Vals :
            LogEvent_field(k, v) =>
                /\ Get(ev'.fields, k) = Some(StringForm(v))
                /\ \A j \in Keys \ {k} : Get(ev'.fields, j) = Get(ev.fields, j)
                /\ \A i, j \in DOMAIN ev'.fields :
                        ev'.fields[i][1] = ev'.fields[j][1] => i = j
        /\ (IsEmission(call') /\ printers[ev.printer].format = "Json"
                /\ ev.fields # << >>) =>
                /\ Len(out') = 1 /\ out'[1].fields # None
                /\ Len(out'[1].fields[1]) = Len(ev.fields)
                /\ \A k \in Keys : Get(out'[1].fields[1], k) = Get(ev.fields, k) ]_vars

\* An info event with user_id 42 and role "admin" emitted as JSON.
C18_Witness ==
    /\ call.op = "emit" /\ PrinterOf(call).format = "Json" /\ Len(out) = 1
    /\ out[1].fields # None
    /\ Get(out[1].fields[1], "user_id") = Some("42")
    /\ Get(out[1].fields[1], "role") = Some("admin")

\* C19: in Text format the line rendered for a structured event is the
\* formatter's glyph, the message, and then the key=value pairs in the order
\* in which the keys were inserted; with no fields, the message alone.
InInsertionOrder(f, order) ==
    [ i \in 1..Len(order) |-> << order[i], Get(f, order[i])[1] >> ]

C19_TextFieldsInInsertionOrder ==
    [][ (IsEmission(call') /\ printers[ev.printer].format = "Text") =>
            \A i \in DOMAIN out' :
                Tail(out'[i].text)
                    = ev.message \o FieldsStr(InInsertionOrder(ev.fields, ev.order)) ]_vars

TenthsOf(e) ==
    { k \in 0..((e \div 100000) + 1) :
        /\ 2 * (k * 100000 - e) <= 100000
        /\ 2 * (e - k * 100000) <= 100000 }
InSeconds(e) ==
    { << ToString(k \div 10), ".", ToString(k % 10), "s" >> : k \in TenthsOf(e) }

\* C21: in Text format the line outro or done renders for the task it closes
\* ends in "(took <duration>)" if and only if the task was open for at least
\* one whole millisecond; the duration is the whole milliseconds below one
\* second, and the seconds with one decimal from one second up.
C21_TookSuffix ==
    [][(/\ call'.op \in {"outro", "done"}
        /\ printers[call'.p].format = "Text"
        /\ printers[call'.p].tasks # << >>)
       => LET e    == now - Newest(printers[call'.p].tasks).start
              s    == IF call'.op = "outro" THEN outro_raw(call'.m) ELSE done_raw
              text == out'[1].text
          IN  /\ out' # << >>
              /\ e < 1000 => text = s
              /\ (e >= 1000 /\ e < 1000000) =>
                    text = s \o << "(took", ToString(e \div 1000), "ms", ")" >>
              /\ e >= 1000000 =>
                    \E d \in InSeconds(e) : text = s \o << "(took" >> \o d \o << ")" >>
      ]_vars

\* A task closed after 1.94 seconds: the line ends in "(took 1.9s)".
C21_Witness ==
    /\ call.op = "outro"
    /\ out # << >>
    /\ out[1].via = "render_outro"
    /\ Contains(out[1].text, << "(took", "1", ".", "9", "s", ")" >>)

\* The k-th task of a stack in the order the tasks were opened (spans are
\* numbered as they are made).
KthOpened(tasks, k) ==
    CHOOSE t \in { tasks[i] : i \in 1..Len(tasks) } :
        Cardinality({ i \in 1..Len(tasks) : tasks[i].span < t.span }) = k - 1

\* A printed line is the entry of task t: it names t's label and the time
\* since t was opened.
EntryOf(line, t) ==
    /\ Contains(line.text, t.label)
    /\ Contains(line.text, << "(started, +" >> \o format_duration(now - t.start))

\* C22: dump_tree prints nothing unless verbose mode is active; when it is,
\* it prints "(no active tasks)" for an empty task stack and otherwise, after
\* a heading, one entry per open task in the order the tasks were opened; it
\* never changes the task stack or the step stack.
C22_DumpTree ==
    [][call'.op = "dump_tree"
       => LET tasks == printers[call'.p].tasks IN
          /\ printers' = printers
          /\ ~is_verbose => out' = << >>
          /\ (is_verbose /\ tasks = << >>) =>
                (Len(out') = 1 /\ out'[1].text = << "(no active tasks)" >>)
          /\ (is_verbose /\ tasks # << >>) =>
                /\ Len(out') = Len(tasks) + 1
                /\ \A k \in 1..Len(tasks) : EntryOf(out'[k + 1], KthOpened(tasks, k))
      ]_vars

\* A snapshot of two open tasks with different labels, opened at different
\* times.
C22_Witness ==
    /\ call.op = "dump_tree"
    /\ Len(out) = 3
    /\ Len(printers[call.p].tasks) = 2
    /\ printers[call.p].tasks[1].label # printers[call.p].tasks[2].label
    /\ printers[call.p].tasks[1].start < printers[call.p].tasks[2].start

\* The formatter suppresses the event of an intro or step about to be made.
Suppressed(c) ==
    \/ c.op = "intro" /\ FormatLogger_intro(c.m) = None
    \/ c.op = "step"  /\ FormatLogger_step(c.m) = None

\* C23: a Printer operation whose event the formatter suppresses has no
\* side effect at all: it writes nothing and leaves the task stack and the
\* step stack as they were (intro and step are the operations that push).
C23_SuppressedNoSideEffect ==
    [][Suppressed(call') => (out' = << >> /\ printers' = printers)]_vars

\* C23, amended: a suppressed operation writes nothing and leaves the step
\* stack alone; a suppressed step leaves the task stack alone too, but a
\* suppressed intro still opens its task, started at the time of the call.
C23_SuppressedIntroStillOpens ==
    [][Suppressed(call') =>
        LET pr == printers[call'.p]
            after == printers'[call'.p] IN
        /\ out' = << >>
        /\ after.steps = pr.steps
        /\ call'.op = "step" => after.tasks = pr.tasks
        /\ call'.op = "intro" =>
            /\ Len(after.tasks) = Len(pr.tasks) + 1
            /\ Front(after.tasks) = pr.tasks
            /\ Last(after.tasks).label = call'.m
            /\ Last(after.tasks).start = now
      ]_vars

\* An intro at Quiet verbosity that wrote nothing and left one open task.
C23_Witness ==
    /\ call.op = "intro"
    /\ is_quiet
    /\ printers[call.p].verbosity = "Quiet"
    /\ out = << >>
    /\ Len(printers[call.p].tasks) = 1
    /\ printers[call.p].tasks[1].label = call.m

\* A Text-format Printer at Quiet verbosity, with quiet mode active.
QuietText(pr) == pr.format = "Text" /\ pr.verbosity = "Quiet" /\ is_quiet

OtherFormat(pr) ==
    [pr EXCEPT !.format = IF pr.format = "Json" THEN "Text" ELSE "Json"]

\* C25: for a structured event of any level at any verbosity, emit_event
\* writes a line in Json format if and only if it writes one in Text format.
C25_SameDecisionInBothFormats ==
    call.op = "emit_event" =>
        \A f \in FieldMaps, ok \in BOOLEAN :
            (out # << >>) <=>
                (emit_event(OtherFormat(PrinterOf(call)), call.level, call.m, f, ok) # << >>)

\* C26: each stack lock is held only for a single push, pop or clear: the
\* thread that calls a backend render method or writes output in a step
\* holds neither the task-stack lock nor the step-stack lock at that time.
C26_NoLockHeldWhileWriting ==
    [][\A t \in Threads :
          (thread'[t] # thread[t] /\ out' # << >>)
              => (held.tasks # t /\ held.steps # t)]_vars

\* C27: when several threads call intro, outro and done on one shared
\* Text-format Printer in any interleaving, the length of the task stack is
\* always the number of completed intros minus the number of outro/done
\* calls that found a task to pop.
C27_NoTaskLostOrPoppedTwice ==
    (Len(printers) = 1 /\ printers[1].format = "Text")
        => Len(printers[1].tasks) = tally.pushed - tally.popped

\* Two threads inside outro or done at once with one task open: one is
\* about to write the popped stack back, the other waits for the lock.
C27_Witness ==
    /\ Len(printers) = 1 /\ printers[1].format = "Text"
    /\ Len(printers[1].tasks) = 1
    /\ \E t, u \in Threads :
        /\ t # u
        /\ thread[t].op \in {"outro", "done"} /\ thread[t].pc = "write"
        /\ thread[t].view = printers[1].tasks
        /\ thread[u].op \in {"outro", "done"} /\ thread[u].pc = "lock_tasks"
        /\ held.tasks = t

\* C28: the quiet/verbose decision applied to a Printer's events is the one
\* of that Printer's own verbosity, whatever other Printers were constructed
\* since: ok, warn, info and dim write unless the Printer is Quiet, and debug
\* and trace write exactly when its verbosity sets the verbose flag.
C28_DecisionFollowsOwnVerbosity ==
    /\ call.op \in {"ok", "warn", "info", "dim"}
        => (out = << >> <=> FlagQuiet(PrinterOf(call).verbosity))
    /\ call.op \in {"debug", "trace"}
        => (out # << >> <=> FlagVerbose(PrinterOf(call).verbosity))

\* C29: an outro or done called with no task open does not fail: in Text
\* format it renders its line without a timing suffix, and both stacks are
\* empty afterwards.
C29_CloseWithoutTask ==
    (/\ call.op \in {"outro", "done"}
     /\ call.tasks = 0
     /\ PrinterOf(call).format = "Text")
        => /\ panicked = ""
           /\ out # << >>
           /\ out[1].via = "render_outro"
           /\ out[1].text = IF call.op = "outro" THEN outro_raw(call.m) ELSE done_raw
           /\ PrinterOf(call).tasks = << >>
           /\ PrinterOf(call).steps = << >>

\* A done that found no task but two open steps, a millisecond after the
\* Printer was made.
C29_Witness ==
    /\ call.op = "done" /\ call.tasks = 0 /\ call.steps = 2
    /\ PrinterOf(call).format = "Text"
    /\ now >= 1000
    /\ out # << >> /\ out[1].text = done_raw

\* The field map f has an entry for key k.
HasKey(f, k) == \E i \in DOMAIN f : f[i][1] = k

\* C30: in Json format progress(label, current, total, finished) emits one
\* structured progress event whose fields carry the label, current and
\* finished (and total when it is known).
C30_JsonProgressCarriesFields ==
    (call.op = "progress" /\ PrinterOf(call).format = "Json")
        => /\ Len(out) = 1
           /\ out[1].via = "json"
           /\ out[1].fields # None
           /\ \A k \in {"label", "current", "finished"} : HasKey(out[1].fields[1], k)
           /\ \E i \in DOMAIN out[1].fields[1] :
                    out[1].fields[1][i] = << "label", call.m >>

====
